---- MODULE Spec2Model ----
(***************************************************************************)
(* day-3/wordembeddings.ipynb: the corpus loader cell (lines 35-47) and    *)
(* the "Quick pre-processing" cell (lines 87-110).                         *)
(*                                                                         *)
(* A Python str is a sequence of characters; a character is a one-element  *)
(* string, except the two typographic quotation marks of special, written *)
(* "ldquo" (U+201C) and "rdquo" (U+201D), and the grave accent of          *)
(* string.punctuation, written "grave" (U+0060).                           *)
(*                                                                         *)
(* A file's content is the text f.read() returns, that is, after the       *)
(* utf-8-sig decoding with errors='ignore'.                                *)
(*                                                                         *)
(* files is the directory as glob finds it; open is the set of open file   *)
(* handles; idx is the position of the for loop in fnames; pc is the       *)
(* statement to run next; text0 records the value line 87 gives text,      *)
(* which lines 90-93 overwrite.  The other variables are the notebook's.   *)
(***************************************************************************)
EXTENDS Naturals, Sequences, FiniteSets

VARIABLES files, fnames, idx, open, t, raw, text, sentences, list_of_list, pc, text0

vars == <<files, fnames, idx, open, t, raw, text, sentences, list_of_list, pc, text0>>

(* ---------------------------------------------------------------- bounds *)

\* text = raw[1114:]
HeaderSkip == 1114

\* Longest text handed to lines 90-110 in NormSpec.
MaxLen == 4

\* Most files data/harper/*.txt matches in Spec.
MaxFiles == 2

\* Most characters of the concatenated corpus beyond the header in Spec.
MaxTail == 6

\* A name the kernel has not bound yet.
Unbound == "unbound"

(* ------------------------------------------------------------ characters *)

\* string.punctuation
punctuation ==
    {"!", "\"", "#", "$", "%", "&", "'", "(", ")", "*", "+", ",", "-", ".",
     "/", ":", ";", "<", "=", ">", "?", "@", "[", "\\", "]", "^", "_", "grave",
     "{", "|", "}", "~"}

\* special = [U+201C, U+201D]
special == {"ldquo", "rdquo"}

\* sent_boundary_pattern = r'[.?!]'
sent_boundary_pattern == {".", "?", "!"}

\* The characters str.strip() and str.split() treat as white space.
Whitespace == {" ", "\t", "\n", "\r", "\f"}

UpperLetters ==
    <<"A", "B", "C", "D", "E", "F", "G", "H", "I", "J", "K", "L", "M",
      "N", "O", "P", "Q", "R", "S", "T", "U", "V", "W", "X", "Y", "Z">>

LowerLetters ==
    <<"a", "b", "c", "d", "e", "f", "g", "h", "i", "j", "k", "l", "m",
      "n", "o", "p", "q", "r", "s", "t", "u", "v", "w", "x", "y", "z">>

IsUpper(ch) == \E k \in DOMAIN UpperLetters : UpperLetters[k] = ch

\* str.lower() on one character
LowerChar(ch) ==
    IF IsUpper(ch)
    THEN LowerLetters[CHOOSE k \in DOMAIN UpperLetters : UpperLetters[k] = ch]
    ELSE ch

(* --------------------------------------------------------- str functions *)

\* s[n:]
SliceFrom(s, n) == SubSeq(s, n + 1, Len(s))

\* Whether s[i:] starts with pat (i is 1-based).
StartsAt(s, i, pat) ==
    /\ i + Len(pat) - 1 <= Len(s)
    /\ SubSeq(s, i, i + Len(pat) - 1) = pat

\* str.replace(old, new): the non-overlapping occurrences, left to right.
RECURSIVE Replace(_, _, _)
Replace(s, old, new) ==
    IF Len(s) < Len(old) THEN s
    ELSE IF StartsAt(s, 1, old)
         THEN new \o Replace(SliceFrom(s, Len(old)), old, new)
         ELSE <<Head(s)>> \o Replace(Tail(s), old, new)

\* As ReSplit with the empty pieces dropped.
RECURSIVE ReSplitNonEmptyFrom(_, _)
ReSplitNonEmptyFrom(s, cur) ==
    IF s = <<>> THEN (IF cur = <<>> THEN <<>> ELSE <<cur>>)
    ELSE IF Head(s) \in {".", "?", "!"}
         THEN (IF cur = <<>> THEN <<>> ELSE <<cur>>)
              \o ReSplitNonEmptyFrom(Tail(s), <<>>)
         ELSE ReSplitNonEmptyFrom(Tail(s), Append(cur, Head(s)))

ReSplitNonEmpty(s) == ReSplitNonEmptyFrom(s, <<>>)

\* As ReSplit with the pattern r'[.?!]+': a run of delimiters is one boundary.
RECURSIVE ReSplitRunsFrom(_, _, _)
ReSplitRunsFrom(s, cur, inRun) ==
    IF s = <<>> THEN <<cur>>
    ELSE IF Head(s) \in {".", "?", "!"}
         THEN (IF inRun THEN <<>> ELSE <<cur>>) \o ReSplitRunsFrom(Tail(s), <<>>, TRUE)
         ELSE ReSplitRunsFrom(Tail(s), Append(cur, Head(s)), FALSE)

ReSplitRuns(s) == ReSplitRunsFrom(s, <<>>, FALSE)

\* re.split(r'[.?!]', s): one piece more than there are delimiters, the empty
\* pieces kept.
RECURSIVE ReSplitFrom(_, _)
ReSplitFrom(s, cur) ==
    IF s = <<>> THEN <<cur>>
    ELSE IF Head(s) \in sent_boundary_pattern
         THEN <<cur>> \o ReSplitFrom(Tail(s), <<>>)
         ELSE ReSplitFrom(Tail(s), Append(cur, Head(s)))

ReSplit(s) == ReSplitFrom(s, <<>>)

\* As KeepChar with the test against special left out.
KeepCharPunctuationOnly(ch) == ch \notin punctuation

KeepChar(ch) == ch \notin punctuation /\ ch \notin special

\* ''.join([ch for ch in sent if ch not in punctuation and ch not in special])
FilterSent(sent) == SelectSeq(sent, KeepChar)

\* As Lower with the case left as it is.
LowerIdentity(sent) == sent

\* sent.lower()
Lower(sent) == [k \in DOMAIN sent |-> LowerChar(sent[k])]

\* sent.strip()
RECURSIVE LStrip(_)
LStrip(s) ==
    IF s # <<>> /\ Head(s) \in Whitespace THEN LStrip(Tail(s)) ELSE s

RECURSIVE RStrip(_)
RStrip(s) ==
    IF s # <<>> /\ s[Len(s)] \in Whitespace
    THEN RStrip(SubSeq(s, 1, Len(s) - 1))
    ELSE s

Strip(s) == RStrip(LStrip(s))

\* As Split with sent.split(' '): a piece between any two spaces, empty or not.
RECURSIVE SplitOnSpaceFrom(_, _)
SplitOnSpaceFrom(s, cur) ==
    IF s = <<>> THEN <<cur>>
    ELSE IF Head(s) = " "
         THEN <<cur>> \o SplitOnSpaceFrom(Tail(s), <<>>)
         ELSE SplitOnSpaceFrom(Tail(s), Append(cur, Head(s)))

SplitOnSpace(s) == SplitOnSpaceFrom(s, <<>>)

\* sent.split(): the maximal runs of non-white-space characters.
RECURSIVE SplitFrom(_, _)
SplitFrom(s, cur) ==
    IF s = <<>> THEN (IF cur = <<>> THEN <<>> ELSE <<cur>>)
    ELSE IF Head(s) \in Whitespace
         THEN (IF cur = <<>> THEN <<>> ELSE <<cur>>) \o SplitFrom(Tail(s), <<>>)
         ELSE SplitFrom(Tail(s), Append(cur, Head(s)))

Split(s) == SplitFrom(s, <<>>)

\* Lines 90-91: the abbreviation normalization.
AbbrevNorm(s) ==
    Replace(Replace(s, <<"M", "r", "s", ".">>, <<"M", "r", "s">>),
            <<"M", "r", ".">>, <<"M", "r">>)

\* Lines 90-98: the raw sentences of a text.
Segment(s) ==
    ReSplit(Replace(Replace(AbbrevNorm(s), <<"\n">>, <<" ">>), <<"\r">>, <<" ">>))

\* Lines 90-110: the tokenized corpus of a text.
Normalize(s) ==
    LET sents == Segment(s)
    IN  [k \in DOMAIN sents |-> Split(Strip(Lower(FilterSent(sents[k]))))]

(* ------------------------------------------------------------ the inputs *)

Mrs_dot == <<"M", "r", "s", ".">>
Mrs == <<"M", "r", "s">>
Mr_dot == <<"M", "r", ".">>
Mr == <<"M", "r">>

Alphabet == {"M", "r", "s", ".", "?", " ", "\n", "\r", ",", "ldquo"}

RECURSIVE Strings(_)
Strings(n) ==
    IF n = 0 THEN {<<>>}
    ELSE LET shorter == Strings(n - 1)
         IN  shorter \cup {Append(s, ch) : s \in {x \in shorter : Len(x) = n - 1},
                                          ch \in Alphabet}

\* "Mrs. Jones met Mr. Smith. They talked!"
Example ==
    <<"M", "r", "s", ".", " ", "J", "o", "n", "e", "s", " ", "m", "e", "t", " ",
      "M", "r", ".", " ", "S", "m", "i", "t", "h", ".", " ",
      "T", "h", "e", "y", " ", "t", "a", "l", "k", "e", "d", "!">>

Texts == Strings(MaxLen) \cup {Example}

\* n characters of meta information at the beginning of a book.
Meta(n) == [k \in 1..n |-> "x"]

\* What a file of data/harper may hold.
Contents ==
    { <<>>,
      <<"A", ".">>,
      Meta(HeaderSkip - 1),
      Meta(HeaderSkip) \o <<"M", "r", ".", "b">> }

\* "ok": the file opens and reads; "noopen": codecs.open raises;
\* "noread": f.read() raises.
Modes == {"ok", "noopen", "noread"}

FileRecs == [content : Contents, mode : Modes]

RECURSIVE Concat(_)
Concat(seqs) == IF seqs = <<>> THEN <<>> ELSE Head(seqs) \o Concat(Tail(seqs))

TotalLen(fs) == Len(Concat([k \in DOMAIN fs |-> fs[k].content]))

FileSystems ==
    { fs \in UNION { [1..n -> FileRecs] : n \in 0..MaxFiles } :
        TotalLen(fs) <= HeaderSkip + MaxTail }

(* ------------------------------------------------------- the loader cell *)

Init ==
    /\ files \in FileSystems
    /\ pc = "glob"
    /\ fnames = Unbound
    /\ idx = 0
    /\ open = {}
    /\ t = Unbound
    /\ raw = Unbound
    /\ text = Unbound
    /\ text0 = Unbound
    /\ sentences = Unbound
    /\ list_of_list = Unbound

\* fnames = glob.glob(os.path.join(DATA_DIR, 'harper', '*.txt')); raw = ''
Glob ==
    /\ pc = "glob"
    /\ fnames' = [k \in 1..Len(files) |-> k]
    /\ raw' = <<>>
    /\ pc' = "for"
    /\ UNCHANGED <<files, idx, open, t, text, sentences, list_of_list, text0>>

\* for fname in fnames: the next file name
ForNext ==
    /\ pc = "for"
    /\ idx < Len(fnames)
    /\ idx' = idx + 1
    /\ pc' = "open"
    /\ UNCHANGED <<files, fnames, open, t, raw, text, sentences, list_of_list, text0>>

\* for fname in fnames: exhausted, the cell ends
ForEnd ==
    /\ pc = "for"
    /\ idx = Len(fnames)
    /\ pc' = "strip"
    /\ UNCHANGED <<files, fnames, idx, open, t, raw, text, sentences, list_of_list, text0>>

\* with codecs.open(fname, ...) as f: the file opens
OpenOk ==
    /\ pc = "open"
    /\ files[fnames[idx]].mode # "noopen"
    /\ open' = open \cup {fnames[idx]}
    /\ pc' = "read"
    /\ UNCHANGED <<files, fnames, idx, t, raw, text, sentences, list_of_list, text0>>

\* with codecs.open(fname, ...) as f: codecs.open raises; nothing catches it
OpenFail ==
    /\ pc = "open"
    /\ files[fnames[idx]].mode = "noopen"
    /\ pc' = "aborted"
    /\ UNCHANGED <<files, fnames, idx, open, t, raw, text, sentences, list_of_list, text0>>

\* t = f.read()
ReadOk ==
    /\ pc = "read"
    /\ files[fnames[idx]].mode = "ok"
    /\ t' = files[fnames[idx]].content
    /\ pc' = "append"
    /\ UNCHANGED <<files, fnames, idx, open, raw, text, sentences, list_of_list, text0>>

\* t = f.read() raises inside the with block
ReadFail ==
    /\ pc = "read"
    /\ files[fnames[idx]].mode = "noread"
    /\ pc' = "unwind"
    /\ UNCHANGED <<files, fnames, idx, open, t, raw, text, sentences, list_of_list, text0>>

\* As AppendRaw with the header cut from each file: raw += t[1114:]
AppendRawPerFileStrip ==
    /\ pc = "append"
    /\ raw' = raw \o SubSeq(t, HeaderSkip + 1, Len(t))
    /\ pc' = "exit"
    /\ UNCHANGED <<files, fnames, idx, open, t, text, sentences, list_of_list, text0>>

\* raw += t
AppendRaw ==
    /\ pc = "append"
    /\ raw' = raw \o t
    /\ pc' = "exit"
    /\ UNCHANGED <<files, fnames, idx, open, t, text, sentences, list_of_list, text0>>

\* the with block is left normally: f is closed
WithExit ==
    /\ pc = "exit"
    /\ open' = open \ {fnames[idx]}
    /\ pc' = "for"
    /\ UNCHANGED <<files, fnames, idx, t, raw, text, sentences, list_of_list, text0>>

\* As WithExitRaise without the with statement: f stays open.
WithExitRaiseLeak ==
    /\ pc = "unwind"
    /\ pc' = "aborted"
    /\ UNCHANGED <<files, fnames, idx, open, t, raw, text, sentences, list_of_list, text0>>

\* the with block is left by the exception of f.read(): f is closed and the
\* exception goes on, out of the loop and the cell
WithExitRaise ==
    /\ pc = "unwind"
    /\ open' = open \ {fnames[idx]}
    /\ pc' = "aborted"
    /\ UNCHANGED <<files, fnames, idx, t, raw, text, sentences, list_of_list, text0>>

(* ----------------------------------------------- the pre-processing cell *)

\* text = raw[1114:]
HeaderStrip ==
    /\ pc = "strip"
    /\ text' = SliceFrom(raw, HeaderSkip)
    /\ text0' = text'
    /\ pc' = "mrs"
    /\ UNCHANGED <<files, fnames, idx, open, t, raw, sentences, list_of_list>>

\* As ReplaceMrs with the result of replace not assigned.
ReplaceMrsDiscarded ==
    /\ pc = "mrs"
    /\ pc' = "mr"
    /\ UNCHANGED <<files, fnames, idx, open, t, raw, text, sentences, list_of_list, text0>>

\* text = text.replace('Mrs.', 'Mrs')
ReplaceMrs ==
    /\ pc = "mrs"
    /\ text' = Replace(text, Mrs_dot, Mrs)
    /\ pc' = "mr"
    /\ UNCHANGED <<files, fnames, idx, open, t, raw, sentences, list_of_list, text0>>

\* As ReplaceMr with the result of replace not assigned.
ReplaceMrDiscarded ==
    /\ pc = "mr"
    /\ pc' = "lf"
    /\ UNCHANGED <<files, fnames, idx, open, t, raw, text, sentences, list_of_list, text0>>

\* text = text.replace('Mr.', 'Mr')
ReplaceMr ==
    /\ pc = "mr"
    /\ text' = Replace(text, Mr_dot, Mr)
    /\ pc' = "lf"
    /\ UNCHANGED <<files, fnames, idx, open, t, raw, sentences, list_of_list, text0>>

\* text = text.replace('\n', ' ')
ReplaceLF ==
    /\ pc = "lf"
    /\ text' = Replace(text, <<"\n">>, <<" ">>)
    /\ pc' = "cr"
    /\ UNCHANGED <<files, fnames, idx, open, t, raw, sentences, list_of_list, text0>>

\* text = text.replace('\r', ' ')
ReplaceCR ==
    /\ pc = "cr"
    /\ text' = Replace(text, <<"\r">>, <<" ">>)
    /\ pc' = "split"
    /\ UNCHANGED <<files, fnames, idx, open, t, raw, sentences, list_of_list, text0>>

\* sentences = re.split(sent_boundary_pattern, text)
SplitSentences ==
    /\ pc = "split"
    /\ sentences' = ReSplit(text)
    /\ pc' = "filter"
    /\ UNCHANGED <<files, fnames, idx, open, t, raw, text, list_of_list, text0>>

\* sentences = [''.join([ch for ch in sent if ...]) for sent in sentences]
FilterSentences ==
    /\ pc = "filter"
    /\ sentences' = [k \in DOMAIN sentences |-> FilterSent(sentences[k])]
    /\ pc' = "lower"
    /\ UNCHANGED <<files, fnames, idx, open, t, raw, text, list_of_list, text0>>

\* sentences = [sent.lower() for sent in sentences]
LowerSentences ==
    /\ pc = "lower"
    /\ sentences' = [k \in DOMAIN sentences |-> Lower(sentences[k])]
    /\ pc' = "ws"
    /\ UNCHANGED <<files, fnames, idx, open, t, raw, text, list_of_list, text0>>

\* sentences = [sent.strip() for sent in sentences]
StripSentences ==
    /\ pc = "ws"
    /\ sentences' = [k \in DOMAIN sentences |-> Strip(sentences[k])]
    /\ pc' = "tokenize"
    /\ UNCHANGED <<files, fnames, idx, open, t, raw, text, list_of_list, text0>>

\* list_of_list = [sent.split() for sent in sentences]
Tokenize ==
    /\ pc = "tokenize"
    /\ list_of_list' = [k \in DOMAIN sentences |-> Split(sentences[k])]
    /\ pc' = "done"
    /\ UNCHANGED <<files, fnames, idx, open, t, raw, text, sentences, text0>>

Preprocess ==
    \/ ReplaceMrs
    \/ ReplaceMr
    \/ ReplaceLF
    \/ ReplaceCR
    \/ SplitSentences
    \/ FilterSentences
    \/ LowerSentences
    \/ StripSentences
    \/ Tokenize

Next ==
    \/ Glob
    \/ ForNext
    \/ ForEnd
    \/ OpenOk
    \/ OpenFail
    \/ ReadOk
    \/ ReadFail
    \/ AppendRaw
    \/ WithExit
    \/ WithExitRaise
    \/ HeaderStrip
    \/ Preprocess

\* Both cells, run in order on a fresh kernel over a directory of files.
Spec == Init /\ [][Next]_vars

\* Lines 90-110 as a function of the text line 87 leaves: the loader's names
\* are outside this fragment.
NormInit ==
    /\ text \in Texts
    /\ text0 = text
    /\ pc = "mrs"
    /\ files = <<>>
    /\ fnames = Unbound
    /\ idx = 0
    /\ open = {}
    /\ t = Unbound
    /\ raw = Unbound
    /\ sentences = Unbound
    /\ list_of_list = Unbound

NormNext == Preprocess

NormSpec == NormInit /\ [][NormNext]_vars

(* ------------------------------------------------------- the properties *)

Min(a, b) == IF a <= b THEN a ELSE b

\* Whether pat occurs in s.
Contains(s, pat) == \E i \in 1..Len(s) : StartsAt(s, i, pat)

\* The tokens of all sentences, in order.
RECURSIVE Flatten(_)
Flatten(lol) == IF lol = <<>> THEN <<>> ELSE Head(lol) \o Flatten(Tail(lol))

\* ' '.join(tokens)
RECURSIVE JoinTokens(_)
JoinTokens(toks) ==
    IF toks = <<>> THEN <<>>
    ELSE IF Len(toks) = 1 THEN Head(toks)
    ELSE Head(toks) \o <<" ">> \o JoinTokens(Tail(toks))

\* The positions of the final '.' of the occurrences of 'Mrs.' and 'Mr.' in s.
AbbrevEnds(s) ==
    { p \in DOMAIN s :
        \/ p >= 4 /\ StartsAt(s, p - 3, Mrs_dot)
        \/ p >= 3 /\ StartsAt(s, p - 2, Mr_dot) }

\* The positions of '.', '?', '!' in s.
Delims(s) == { p \in DOMAIN s : s[p] \in {".", "?", "!"} }

\* The delimiters of s that do not end an occurrence of 'Mrs.' or 'Mr.'.
Boundaries(s) == Delims(s) \ AbbrevEnds(s)

\* The characters of s strictly between positions lo and hi, the periods of the
\* abbreviations left out and each line break read as a space.
RECURSIVE Between(_, _, _)
Between(s, lo, hi) ==
    IF lo + 1 >= hi THEN <<>>
    ELSE LET ch == s[lo + 1]
             here == IF lo + 1 \in AbbrevEnds(s) THEN <<>>
                     ELSE IF ch \in {"\n", "\r"} THEN <<" ">>
                     ELSE <<ch>>
         IN  here \o Between(s, lo + 1, hi)

\* The k-th boundary of s from the left; 0 before the first, Len(s) + 1 after
\* the last.
NthBoundary(s, k) ==
    IF k = 0 THEN 0
    ELSE IF k > Cardinality(Boundaries(s)) THEN Len(s) + 1
    ELSE CHOOSE p \in Boundaries(s) :
            Cardinality({q \in Boundaries(s) : q <= p}) = k

\* s cut at its boundaries and nowhere else.
CutAtBoundaries(s) ==
    [k \in 1..(Cardinality(Boundaries(s)) + 1) |->
        Between(s, NthBoundary(s, k - 1), NthBoundary(s, k))]

\* Whether two delimiters of s stand side by side.
AdjacentDelims(s) == \E p \in Delims(s) : p + 1 \in Delims(s)

\* Whether removing an abbreviation's period forms a new 'Mrs.' or 'Mr.'.
FormsAbbrev(s) ==
    \/ Contains(s, <<"M", "r", "s", ".", ".">>)
    \/ Contains(s, <<"M", "r", ".", ".">>)
    \/ Contains(s, <<"M", "r", ".", "s", ".">>)

\* The contents of the files, in enumeration order.
AllContents == [k \in DOMAIN files |-> files[k].content]

\* The number of characters of the files before file k.
Offset(k) == Len(Concat(SubSeq(AllContents, 1, k - 1)))

\* The contents of the files that open and read, in enumeration order.
ReadableContents ==
    LET ok(f) == f.mode = "ok"
        kept == SelectSeq(files, ok)
    IN  [k \in DOMAIN kept |-> kept[k].content]

\* C1: every token of every sentence is non-empty, is lower case and holds no
\* character of string.punctuation or of special.
C1_TokensClean ==
    pc = "done" =>
        \A i \in DOMAIN list_of_list :
            \A j \in DOMAIN list_of_list[i] :
                LET tok == list_of_list[i][j]
                IN  /\ tok # <<>>
                    /\ \A k \in DOMAIN tok :
                          /\ tok[k] \notin punctuation
                          /\ tok[k] \notin special
                          /\ ~IsUpper(tok[k])
                          /\ LowerChar(tok[k]) = tok[k]

\* A text with an upper-case letter, a punctuation mark and a special quote has
\* been tokenized into at least one token.
C1_Witness ==
    /\ pc = "done"
    /\ \E k \in DOMAIN text0 : IsUpper(text0[k])
    /\ \E k \in DOMAIN text0 : text0[k] \in punctuation \ {".", "?", "!"}
    /\ \E k \in DOMAIN text0 : text0[k] \in special
    /\ \E i \in DOMAIN list_of_list : list_of_list[i] # <<>>

\* C2 as stated: with no matching file raw is the empty string and the
\* tokenized corpus has zero sentences.
C2_EmptyCorpusNoSentence ==
    (pc = "done" /\ files = <<>>) => (raw = <<>> /\ list_of_list = <<>>)

\* C2 as amended: with no matching file raw is the empty string and the
\* tokenized corpus is one sentence, which has no token.
C2_EmptyCorpusOneEmptySentence ==
    (pc = "done" /\ files = <<>>) => (raw = <<>> /\ list_of_list = << <<>> >>)

\* Both cells have run over a directory without matching files.
C2_Witness == pc = "done" /\ files = <<>> /\ fnames = <<>>

\* C3: a file that cannot be opened or read is skipped: the loader never
\* aborts, and when the loop ends raw is the contents of the readable files in
\* enumeration order.
C3_ReadFailureSkipped ==
    /\ pc # "aborted"
    /\ pc = "strip" => raw = Concat(ReadableContents)

C5_AbbrevPeriodNoBoundary ==
    /\ pc = "filter" => sentences = CutAtBoundaries(text0)
    /\ pc = "done" => Len(list_of_list) = 1 + Cardinality(Boundaries(text0))

\* A text with an abbreviation followed by more text and with another delimiter
\* has been segmented.
C5_Witness ==
    /\ pc = "done"
    /\ AbbrevEnds(text0) # {}
    /\ Boundaries(text0) # {}
    /\ \E p \in AbbrevEnds(text0) : p < Len(text0) /\ text0[p + 1] \notin {".", "?", "!"}
    /\ Len(list_of_list) = 1 + Cardinality(Boundaries(text0))

\* C6 as stated: there are at most (number of delimiters) + 1 sentences, and
\* exactly that many whenever no delimiter stands next to another.
C6_CountEqualUnlessAdjacent ==
    pc = "done" =>
        /\ Len(list_of_list) <= Cardinality(Delims(text0)) + 1
        /\ ~AdjacentDelims(text0) =>
              Len(list_of_list) = Cardinality(Delims(text0)) + 1

\* C6 as amended: there are at most (number of delimiters) + 1 sentences, and
\* exactly that many exactly when the text holds no 'Mrs.' and no 'Mr.'.
C6_CountEqualUnlessAbbrev ==
    pc = "done" =>
        /\ Len(list_of_list) <= Cardinality(Delims(text0)) + 1
        /\ (Len(list_of_list) = Cardinality(Delims(text0)) + 1)
              <=> (AbbrevEnds(text0) = {})

\* A text with adjacent delimiters and no abbreviation has been segmented.
C6_Witness ==
    /\ pc = "done"
    /\ AdjacentDelims(text0)
    /\ AbbrevEnds(text0) = {}
    /\ Len(list_of_list) = Cardinality(Delims(text0)) + 1

\* C7: "Mrs. Jones met Mr. Smith. They talked!" becomes
\* "Mrs Jones met Mr Smith. They talked!", then the three raw sentences
\* "Mrs Jones met Mr Smith", " They talked", "", then
\* [[mrs, jones, met, mr, smith], [they, talked], []].
C7_EndToEndExample ==
    text0 = Example =>
        /\ pc = "lf" =>
              text = <<"M", "r", "s", " ", "J", "o", "n", "e", "s", " ",
                       "m", "e", "t", " ", "M", "r", " ",
                       "S", "m", "i", "t", "h", ".", " ",
                       "T", "h", "e", "y", " ", "t", "a", "l", "k", "e", "d", "!">>
        /\ pc = "filter" =>
              sentences = << <<"M", "r", "s", " ", "J", "o", "n", "e", "s", " ",
                               "m", "e", "t", " ", "M", "r", " ",
                               "S", "m", "i", "t", "h">>,
                             <<" ", "T", "h", "e", "y", " ",
                               "t", "a", "l", "k", "e", "d">>,
                             <<>> >>
        /\ pc = "done" =>
              list_of_list = << << <<"m", "r", "s">>, <<"j", "o", "n", "e", "s">>,
                                   <<"m", "e", "t">>, <<"m", "r">>,
                                   <<"s", "m", "i", "t", "h">> >>,
                                << <<"t", "h", "e", "y">>,
                                   <<"t", "a", "l", "k", "e", "d">> >>,
                                <<>> >>

\* The example has been normalized.
C7_Witness == pc = "done" /\ text0 = Example /\ Len(list_of_list) = 3

\* C8: the tokens of all sentences joined by single spaces and normalized
\* again give the same tokens in the same order.
C8_RoundTrip ==
    pc = "done" =>
        Flatten(Normalize(JoinTokens(Flatten(list_of_list)))) = Flatten(list_of_list)

\* Tokens of two sentences, from a text that is not already their join.
C8_Witness ==
    /\ pc = "done"
    /\ Len(Flatten(list_of_list)) >= 2
    /\ Cardinality({i \in DOMAIN list_of_list : list_of_list[i] # <<>>}) >= 2
    /\ JoinTokens(Flatten(list_of_list)) # text0

\* C9: at most one file handle is open at a time, and none is open outside
\* the with block: not after the loop, not after an exception.
C9_HandlesClosed ==
    /\ Cardinality(open) <= 1
    /\ pc \notin {"read", "append", "exit", "unwind"} => open = {}

\* f.read() raised on a later file and the loader has aborted.
C9_Witness ==
    /\ pc = "aborted"
    /\ files[fnames[idx]].mode = "noread"
    /\ idx > 1
    /\ open = {}

\* C10: the header is cut once, from the concatenation of all files: raw is the
\* files' contents in order, text is raw without its first min(1114, len(raw))
\* characters, every character of every file that lies at index 1114 or later
\* of raw is in text, and a corpus of at most 1114 characters gives what the
\* empty string gives.
C10_HeaderCutOnce ==
    pc = "done" =>
        /\ raw = Concat(AllContents)
        /\ Len(text0) = Len(raw) - Min(HeaderSkip, Len(raw))
        /\ \A k \in DOMAIN files :
              \A j \in DOMAIN files[k].content :
                  Offset(k) + j > HeaderSkip =>
                      text0[Offset(k) + j - HeaderSkip] = files[k].content[j]
        /\ Len(raw) <= HeaderSkip => list_of_list = Normalize(<<>>)

\* The cut ends inside the meta information of the second file.
C10_Witness ==
    /\ pc = "done"
    /\ Len(files) = 2
    /\ files[1].content # <<>>
    /\ Len(files[1].content) < HeaderSkip
    /\ Len(raw) > HeaderSkip
    /\ text0[1] = "x"

====
